---- MODULE Spec2Model ----
(***************************************************************************)
(* Model of src/src/oobabot/discrivener_message.py: the object_pairs_hook  *)
(* that turns the (key, value) pairs of a decoded JSON object into a typed *)
(* Discrivener message, and the message classes it constructs.             *)
(*                                                                         *)
(* Python values are records tagged with their type in the field ty.  A    *)
(* raised exception is the record Raise(name): an operator that models a   *)
(* function returns either a value or the exception raised by the first    *)
(* statement of the function that fails.  Instants and durations are       *)
(* integer counts of microseconds, the resolution of datetime.             *)
(***************************************************************************)
EXTENDS Integers, Sequences, FiniteSets, TLC

VARIABLES
    clock,  \* the wall clock read by datetime.datetime.now(), microseconds
    arg,    \* the argument of the most recent (or the pending) call
    ret,    \* what that call returned or raised, with the clock it ran at
    held    \* a call whose returned object the caller still references

vars == <<clock, arg, ret, held>>

----------------------------------------------------------------------------
(* Python values *)

None == [ty |-> "NoneType"]
PyBool(b) == [ty |-> "bool", b |-> b]
PyInt(i) == [ty |-> "int", i |-> i]
PyStr(s) == [ty |-> "str", s |-> s]
PyList(items) == [ty |-> "list", items |-> items]
\* a dict: d is a function from the keys present to their values
PyDict(d) == [ty |-> "dict", d |-> d]
EmptyDict == PyDict(<<>>)
timedelta(us) == [ty |-> "timedelta", us |-> us]
datetime(us) == [ty |-> "datetime", us |-> us]

Raise(exc) == [ty |-> "raise", exc |-> exc]
IsRaise(v) == v.ty = "raise"

\* dict.get(key, default)
GetOr(data, key, default) ==
    IF key \in DOMAIN data.d THEN data.d[key] ELSE default

\* dict.get(key)
Get(data, key) == GetOr(data, key, None)

RECURSIVE Digits(_)
Digits(n) ==
    LET d == <<"0", "1", "2", "3", "4", "5", "6", "7", "8", "9">>
    IN IF n < 10 THEN d[n + 1] ELSE Digits(n \div 10) \o d[(n % 10) + 1]

\* str(v) for the values a token_text can hold
str(v) ==
    CASE v.ty = "str" -> v.s
      [] v.ty = "NoneType" -> "None"
      [] v.ty = "bool" -> IF v.b THEN "True" ELSE "False"
      [] v.ty = "int" -> IF v.i < 0 THEN "-" \o Digits(-v.i) ELSE Digits(v.i)

\* bool(v): Python's truth value testing
bool(v) ==
    CASE v.ty = "NoneType" -> FALSE
      [] v.ty = "bool" -> v.b
      [] v.ty = "int" -> v.i # 0
      [] v.ty = "str" -> v.s # ""
      [] v.ty = "list" -> Len(v.items) > 0
      [] v.ty = "dict" -> DOMAIN v.d # {}
      [] v.ty = "OrderedDict" -> Len(v.pairs) > 0
      [] OTHER -> TRUE   \* an instance of a class without __bool__ or __len__

\* "".join(strs)
RECURSIVE Join(_)
Join(strs) ==
    IF Len(strs) = 0 THEN "" ELSE Head(strs) \o Join(Tail(strs))

\* the first exception among the elements of a comprehension, if any
FirstRaise(results) ==
    LET bad == {i \in DOMAIN results : IsRaise(results[i])}
    IN results[CHOOSE i \in bad : \A j \in bad : i <= j]

\* [f(x) for x in xs]: the list, or the exception of the first element to fail
Comprehension(results) ==
    IF \E i \in DOMAIN results : IsRaise(results[i])
    THEN FirstRaise(results)
    ELSE PyList(results)

----------------------------------------------------------------------------
(* Message kinds *)

CHANNEL_SILENT == "ChannelSilent"
CONNECT == "Connect"
DISCONNECT == "Disconnect"
RECONNECT == "Reconnect"
TRANSCRIPTION == "Transcription"
USER_JOIN == "UserJoin"
USER_LEAVE == "UserLeave"

DiscrivenerMessageType ==
    {CHANNEL_SILENT, CONNECT, DISCONNECT, RECONNECT, TRANSCRIPTION,
     USER_JOIN, USER_LEAVE}

----------------------------------------------------------------------------
(* Message classes *)

\* silent from "data is not None" instead of bool(data)
ChannelSilentData_NotNone(data) ==
    [ty |-> "ChannelSilentData",
     type |-> CHANNEL_SILENT,
     silent |-> data.ty # "NoneType"]

ChannelSilentData(data) ==
    [ty |-> "ChannelSilentData",
     type |-> CHANNEL_SILENT,
     silent |-> bool(data)]

ConnectData(data) ==
    [ty |-> "ConnectData",
     type |-> CONNECT,
     channel_id |-> Get(data, "channel_id"),
     guild_id |-> Get(data, "guild_id"),
     session_id |-> Get(data, "session_id"),
     server |-> Get(data, "server"),
     ssrc |-> Get(data, "ssrc")]

DisconnectData(data) ==
    [ty |-> "DisconnectData",
     type |-> DISCONNECT,
     kind |-> Get(data, "kind"),
     reason |-> Get(data, "reason"),
     channel_id |-> Get(data, "channel_id"),
     guild_id |-> Get(data, "guild_id"),
     session_id |-> Get(data, "session_id")]

UserJoinData(data) ==
    [ty |-> "UserJoinData", type |-> USER_JOIN, user_id |-> data]

UserLeaveData(data) ==
    [ty |-> "UserLeaveData", type |-> USER_LEAVE, user_id |-> data]

\* token_text defaulting to the empty string instead of str(None)
TokenWithProbability_EmptyDefault(data) ==
    [ty |-> "TokenWithProbability",
     probability |-> GetOr(data, "p", PyInt(0)),
     token_id |-> GetOr(data, "token_id", PyInt(0)),
     token_text |-> str(GetOr(data, "token_text", PyStr("")))]

TokenWithProbability(data) ==
    [ty |-> "TokenWithProbability",
     probability |-> GetOr(data, "p", PyInt(0)),
     token_id |-> GetOr(data, "token_id", PyInt(0)),
     token_text |-> str(Get(data, "token_text"))]

----------------------------------------------------------------------------
(* Time conversions *)

NanosPerSecond == 1000000000
NanosPerMicro == 1000
MicrosPerSecond == NanosPerSecond \div NanosPerMicro

\* n / unit rounded to the nearest integer, a tie going to the even one: how
\* datetime.timedelta and datetime.fromtimestamp turn a float into microseconds
RoundHalfEven(n, unit) ==
    LET q == n \div unit
        r == n % unit
    IN IF 2 * r < unit THEN q
       ELSE IF 2 * r > unit THEN q + 1
       ELSE IF q % 2 = 0 THEN q ELSE q + 1

\* The float seconds + nanos / 1e9 is taken as exact: the inputs of the model
\* keep nanos off the half-microsecond ties that the float's error decides.
to_datetime(message) ==
    IF message.ty = "NoneType" THEN Raise("AttributeError")
    ELSE LET seconds == GetOr(message, "secs_since_epoch", PyInt(0)).i
             nanos == GetOr(message, "nanos_since_epoch", PyInt(0)).i
         IN datetime(seconds * MicrosPerSecond
                     + RoundHalfEven(nanos, NanosPerMicro))

\* the nanos truncated to whole microseconds instead of rounded
to_duration_Truncating(message) ==
    IF message.ty = "NoneType" THEN Raise("AttributeError")
    ELSE LET seconds == GetOr(message, "secs", PyInt(0)).i
             nanos == GetOr(message, "nanos", PyInt(0)).i
         IN timedelta(seconds * MicrosPerSecond + nanos \div NanosPerMicro)

to_duration(message) ==
    IF message.ty = "NoneType" THEN Raise("AttributeError")
    ELSE LET seconds == GetOr(message, "secs", PyInt(0)).i
             nanos == GetOr(message, "nanos", PyInt(0)).i
         IN timedelta(seconds * MicrosPerSecond
                      + RoundHalfEven(nanos, NanosPerMicro))

----------------------------------------------------------------------------
(* Transcriptions *)

TextSegment(message) ==
    LET twp == Get(message, "tokens_with_probability")
    IN IF twp.ty = "NoneType" THEN Raise("TypeError")
       ELSE [ty |-> "TextSegment",
             tokens_with_probability |->
                 [i \in DOMAIN twp.items |->
                     TokenWithProbability(twp.items[i])],
             start_offset_ms |-> Get(message, "start_offset_ms"),
             end_offset_ms |-> Get(message, "end_offset_ms")]

\* TextSegment.__str__
TextSegment__str__(self) ==
    Join([i \in DOMAIN self.tokens_with_probability |->
             self.tokens_with_probability[i].token_text])

\* types.VoiceMessageWithTokens.__init__: the attributes that
\* UserVoiceMessage reads back (_user_id, _start_time, _audio_duration)
VoiceMessage(user_id, start_time, audio_duration) ==
    [_user_id |-> user_id,
     _start_time |-> start_time,
     _audio_duration |-> audio_duration]

UserVoiceMessage(message) ==
    LET processing_time == to_duration(Get(message, "processing_time"))
        segs == Get(message, "segments")
        segments ==
            IF segs.ty = "NoneType" THEN Raise("TypeError")
            ELSE Comprehension([i \in DOMAIN segs.items |->
                                    TextSegment(segs.items[i])])
        start_time == to_datetime(Get(message, "start_timestamp"))
        audio_duration == to_duration(Get(message, "audio_duration"))
        base == VoiceMessage(Get(message, "user_id"), start_time,
                             audio_duration)
    IN IF IsRaise(processing_time) THEN processing_time
       ELSE IF IsRaise(segments) THEN segments
       ELSE IF IsRaise(start_time) THEN start_time
       ELSE IF IsRaise(audio_duration) THEN audio_duration
       ELSE [ty |-> "UserVoiceMessage",
             type |-> TRANSCRIPTION,
             _processing_time |-> processing_time,
             _segments |-> segments.items,
             _user_id |-> base._user_id,
             _start_time |-> base._start_time,
             _audio_duration |-> base._audio_duration,
             _latency |-> timedelta(clock - base._start_time.us
                                    - base._audio_duration.us)]

\* the properties of UserVoiceMessage
processing_time(self) == self._processing_time

\* the latency computed from the clock at each read instead of stored
latency_Recomputed(self) ==
    timedelta(clock - self._start_time.us - self._audio_duration.us)

latency(self) == self._latency

\* the segments separated by a space
text_Spaced(self) ==
    Join([i \in DOMAIN self._segments |->
             TextSegment__str__(self._segments[i]) \o " "])

text(self) ==
    Join([i \in DOMAIN self._segments |-> TextSegment__str__(self._segments[i])])

is_bot(self) == FALSE

RECURSIVE tokens_with_confidence_from(_, _)
tokens_with_confidence_from(segments, s) ==
    IF s > Len(segments) THEN <<>>
    ELSE [i \in DOMAIN segments[s].tokens_with_probability |->
             <<segments[s].tokens_with_probability[i].token_text,
               segments[s].tokens_with_probability[i].probability>>]
         \o tokens_with_confidence_from(segments, s + 1)

tokens_with_confidence(self) == tokens_with_confidence_from(self._segments, 1)

----------------------------------------------------------------------------
(* Dispatch *)

MESSAGE_TYPE_TO_CLASS ==
    [k \in DiscrivenerMessageType |->
        CASE k = CHANNEL_SILENT -> "ChannelSilentData"
          [] k = CONNECT -> "ConnectData"
          [] k = DISCONNECT -> "DisconnectData"
          [] k = RECONNECT -> "ConnectData"
          [] k = TRANSCRIPTION -> "UserVoiceMessage"
          [] k = USER_JOIN -> "UserJoinData"
          [] k = USER_LEAVE -> "UserLeaveData"]

\* cls(data)
New(cls, data) ==
    CASE cls = "ChannelSilentData" -> ChannelSilentData(data)
      [] cls = "ConnectData" -> ConnectData(data)
      [] cls = "DisconnectData" -> DisconnectData(data)
      [] cls = "UserVoiceMessage" -> UserVoiceMessage(data)
      [] cls = "UserJoinData" -> UserJoinData(data)
      [] cls = "UserLeaveData" -> UserLeaveData(data)

\* collections.OrderedDict(pairs): a repeated key keeps its first place and
\* takes its last value
RECURSIVE OrderedDictItems(_, _)
OrderedDictItems(items, pairs) ==
    IF Len(pairs) = 0 THEN items
    ELSE LET k == Head(pairs)[1]
             v == Head(pairs)[2]
             next ==
                 IF \E i \in DOMAIN items : items[i][1] = k
                 THEN [i \in DOMAIN items |->
                          IF items[i][1] = k THEN <<k, v>> ELSE items[i]]
                 ELSE Append(items, <<k, v>>)
         IN OrderedDictItems(next, Tail(pairs))

OrderedDict(pairs) ==
    [ty |-> "OrderedDict", pairs |-> OrderedDictItems(<<>>, pairs)]

\* a hook that keeps the last message built and returns it again for the
\* next pairs with the same first key
object_pairs_hook_Cached(pairs) ==
    IF Len(pairs) = 0 THEN Raise("IndexError")
    ELSE LET key == pairs[1][1]
         IN IF /\ ret.ty = "Returned"
               /\ Len(ret.arg) > 0
               /\ ret.arg[1][1] = key
            THEN ret.out
            ELSE IF key \in DOMAIN MESSAGE_TYPE_TO_CLASS /\ Len(pairs) = 1
            THEN New(MESSAGE_TYPE_TO_CLASS[key], pairs[1][2])
            ELSE OrderedDict(pairs)

object_pairs_hook(pairs) ==
    IF Len(pairs) = 0 THEN Raise("IndexError")
    ELSE LET key == pairs[1][1]
         IN IF key \in DOMAIN MESSAGE_TYPE_TO_CLASS /\ Len(pairs) = 1
            THEN New(MESSAGE_TYPE_TO_CLASS[key], pairs[1][2])
            ELSE OrderedDict(pairs)

----------------------------------------------------------------------------
(* Inputs *)

MaxTicks == 2      \* advances of the clock
MaxPairs == 2      \* entries of a JSON object that is no single-key message
MaxTokens == 2     \* tokens of a segment
MaxSegments == 2   \* segments of a transcription
MaxSecs == 2       \* whole seconds of a duration
MaxMicros == 3     \* whole microseconds in the nanos of a duration

SeqsUpTo(S, n) == UNION {[1..k -> S] : k \in 0..n}

\* a key absent, or present with one of the values vs
Optional(key, vs) == {<<>>} \cup {key :> v : v \in vs}

ClockStart == 3 * MicrosPerSecond

\* payloads of every truth value, an already decoded message among them
SilentPayloads ==
    {None, PyBool(FALSE), PyBool(TRUE), PyInt(0), PyInt(5), PyStr(""),
     PyStr("x"), PyList(<<>>), PyList(<<PyInt(0)>>), EmptyDict,
     PyDict([user_id |-> PyInt(0)]), ChannelSilentData(EmptyDict),
     OrderedDict(<<<<"Ping", PyInt(0)>>>>)}

ConnectPayloads ==
    {EmptyDict,
     PyDict([channel_id |-> PyInt(7)]),
     PyDict([channel_id |-> PyInt(7), guild_id |-> PyInt(8),
             session_id |-> PyStr("s"), server |-> PyStr("host"),
             ssrc |-> PyInt(9)])}

DisconnectPayloads ==
    {EmptyDict,
     PyDict([kind |-> PyStr("Runtime"), reason |-> PyStr("TimedOut"),
             channel_id |-> PyInt(7), guild_id |-> PyInt(8),
             session_id |-> PyStr("s")])}

UserIds == {PyInt(5), PyInt(6)}

TokenPayloads ==
    {EmptyDict,
     PyDict([token_text |-> PyStr("ab")]),
     PyDict([p |-> PyInt(90), token_id |-> PyInt(7),
             token_text |-> PyStr("cd")])}

Offsets == [start_offset_ms |-> PyInt(0), end_offset_ms |-> PyInt(40)]

SegmentPayloads ==
    {PyDict([tokens_with_probability |-> PyList(ts)]) :
        ts \in SeqsUpTo(TokenPayloads, MaxTokens)}
    \cup {PyDict(Offsets),
          PyDict([tokens_with_probability |->
                      PyList(<<PyDict([p |-> PyInt(50)])>>)] @@ Offsets)}

ProcessingTimes == {PyDict([secs |-> PyInt(1), nanos |-> PyInt(1999)])}
StartTimestamps ==
    {PyDict([secs_since_epoch |-> PyInt(1),
             nanos_since_epoch |-> PyInt(250000000)])}
AudioDurations == {EmptyDict, PyDict([secs |-> PyInt(1), nanos |-> PyInt(600)])}

SegmentLists(n) == {PyList(ss) : ss \in SeqsUpTo(SegmentPayloads, n)}

\* every combination of absent fields around at most one segment, and every
\* list of segments in a payload with its three time sub-objects
TranscriptionPayloads ==
    {PyDict(pt @@ sg @@ uid @@ st @@ ad) :
        pt \in Optional("processing_time", ProcessingTimes),
        sg \in Optional("segments", SegmentLists(1)),
        uid \in Optional("user_id", {PyInt(5)}),
        st \in Optional("start_timestamp", StartTimestamps),
        ad \in Optional("audio_duration", AudioDurations)}
    \cup
    {PyDict([processing_time |-> pt, segments |-> sg, start_timestamp |-> st,
             audio_duration |-> PyDict([secs |-> PyInt(1),
                                        nanos |-> PyInt(600)])]) :
        pt \in ProcessingTimes,
        sg \in SegmentLists(MaxSegments),
        st \in StartTimestamps}

Seg(texts) ==
    PyDict([tokens_with_probability |->
               PyList([i \in DOMAIN texts |->
                          PyDict([token_text |-> PyStr(texts[i])])])])

FullTranscription(segs) ==
    PyDict([processing_time |-> PyDict([secs |-> PyInt(1)]),
            segments |-> PyList(segs),
            user_id |-> PyInt(5),
            start_timestamp |-> PyDict([secs_since_epoch |-> PyInt(1)]),
            audio_duration |-> PyDict([secs |-> PyInt(1),
                                       nanos |-> PyInt(600)])])

SampleTranscriptions ==
    {FullTranscription(<<>>),
     FullTranscription(<<Seg(<<"ab">>), Seg(<<"cd">>)>>),
     FullTranscription(<<PyDict(Offsets)>>),
     PyDict([segments |-> PyList(<<>>)]),
     PyDict([processing_time |-> EmptyDict]),
     EmptyDict}

\* one-entry pair sequences whose key is a known kind
Messages ==
    {<<<<CHANNEL_SILENT, v>>>> : v \in SilentPayloads}
    \cup {<<<<k, v>>>> : k \in {CONNECT, RECONNECT}, v \in ConnectPayloads}
    \cup {<<<<DISCONNECT, v>>>> : v \in DisconnectPayloads}
    \cup {<<<<k, v>>>> : k \in {USER_JOIN, USER_LEAVE}, v \in UserIds}
    \cup {<<<<TRANSCRIPTION, v>>>> : v \in SampleTranscriptions}

Entries ==
    {<<CONNECT, EmptyDict>>, <<"Ping", PyInt(1)>>, <<"Ping", PyInt(2)>>,
     <<"Pong", PyInt(3)>>}

Inputs == Messages \cup SeqsUpTo(Entries, MaxPairs)

----------------------------------------------------------------------------
(* Calls *)

NotCalled == [ty |-> "NotCalled"]

\* the record of one call: its argument, the clock it ran at, and the value
\* it returned or the exception it raised
Returned(a, out) == [ty |-> "Returned", arg |-> a, now |-> clock, out |-> out]

IsReturned(c) == c.ty = "Returned"

\* the call returned a value (it raised nothing)
Succeeded(c) == IsReturned(c) /\ ~IsRaise(c.out)

\* time passes between calls
Tick ==
    /\ clock < ClockStart + MaxTicks
    /\ clock' = clock + 1
    /\ UNCHANGED <<arg, ret, held>>

\* the JSON decoder calls the hook with the pairs of one object; with keep,
\* the caller goes on referencing what it got
Dispatch(pairs, keep) ==
    /\ arg' = pairs
    /\ ret' = Returned(pairs, object_pairs_hook(pairs))
    /\ held' = IF keep THEN ret' ELSE held
    /\ UNCHANGED clock

Init ==
    /\ clock = ClockStart
    /\ arg = <<>>
    /\ ret = NotCalled
    /\ held = NotCalled

Next ==
    \/ Tick
    \/ \E pairs \in Inputs : Dispatch(pairs, FALSE)

\* every kind of input, one call after another
Spec == Init /\ [][Next]_vars

\* messages of every kind and outcome, and pairs that are no message
CallInputs ==
    {<<<<CHANNEL_SILENT, EmptyDict>>>>, <<<<CHANNEL_SILENT, PyBool(TRUE)>>>>,
     <<<<CONNECT, EmptyDict>>>>,
     <<<<CONNECT, PyDict([channel_id |-> PyInt(7)])>>>>,
     <<<<RECONNECT, EmptyDict>>>>, <<<<DISCONNECT, EmptyDict>>>>,
     <<<<USER_JOIN, PyInt(5)>>>>, <<<<USER_LEAVE, PyInt(5)>>>>,
     <<>>, <<<<"Ping", PyInt(1)>>>>,
     <<<<"Ping", PyInt(1)>>, <<"Ping", PyInt(2)>>>>}
    \cup {<<<<TRANSCRIPTION, v>>>> : v \in SampleTranscriptions}

\* a retained result, and calls before and after it at other clock values
NextCalls ==
    \/ Tick
    \/ \E pairs \in CallInputs, keep \in BOOLEAN : Dispatch(pairs, keep)

SpecCalls == Init /\ [][NextCalls]_vars

InitTranscription ==
    /\ clock = ClockStart
    /\ arg \in {<<<<TRANSCRIPTION, v>>>> : v \in TranscriptionPayloads}
    /\ ret = NotCalled
    /\ held = NotCalled

\* the pending message is decoded
DispatchTranscription ==
    /\ ret = NotCalled
    /\ ret' = Returned(arg, object_pairs_hook(arg))
    /\ UNCHANGED <<clock, arg, held>>

\* one Transcription message of every shape, decoded
SpecTranscription == InitTranscription /\ [][DispatchTranscription]_vars

NanosSamples ==
    {k * NanosPerMicro + r :
        k \in 0..MaxMicros, r \in {0, 1, 499, 500, 501, 999}}
    \cup {500000000, 999999499, 999999500, 999999999}

DurationMessages ==
    {PyDict(s @@ n) :
        s \in Optional("secs", {PyInt(i) : i \in 0..MaxSecs}),
        n \in Optional("nanos", {PyInt(i) : i \in NanosSamples})}

InitDuration ==
    /\ clock = ClockStart
    /\ arg \in DurationMessages
    /\ ret = NotCalled
    /\ held = NotCalled

\* the pending message is converted
ConvertDuration ==
    /\ ret = NotCalled
    /\ ret' = Returned(arg, to_duration(arg))
    /\ UNCHANGED <<clock, arg, held>>

\* one {secs, nanos} message of every shape, converted
SpecDuration == InitDuration /\ [][ConvertDuration]_vars

----------------------------------------------------------------------------
(* Properties *)

\* the pairs are one entry whose key is a known kind
IsMessage(pairs) ==
    Len(pairs) = 1 /\ pairs[1][1] \in DiscrivenerMessageType

IsKind(pairs, kind) == Len(pairs) = 1 /\ pairs[1][1] = kind

\* C1: dispatching one entry (K, payload) of a known kind K, when the
\* constructor succeeds, returns a message whose type field is K, for
\* Reconnect as for Connect.
C1_TypeIsMatchedKind ==
    (Succeeded(ret) /\ IsMessage(ret.arg)) => ret.out.type = ret.arg[1][1]

\* C2: for pairs that are not one entry of a known kind (an unknown key,
\* several entries, repeated keys, no entry), the hook does not fail and
\* returns the fallback holding exactly the original pairs, as many and in
\* the same order.
C2_FallbackKeepsPairs ==
    (IsReturned(ret) /\ ~IsMessage(ret.arg)) =>
        /\ ret.out.ty = "OrderedDict"
        /\ ret.out.pairs = ret.arg

\* the payloads without content
EmptyPayloads ==
    {None, PyBool(FALSE), PyInt(0), PyStr(""), PyList(<<>>), EmptyDict}

\* C8: dispatching (ChannelSilent, payload) always succeeds with a
\* ChannelSilentData whose silent is false for an empty payload (the empty
\* object included) and true for every other payload, whatever its fields.
C8_SilentIsTruthiness ==
    (IsReturned(ret) /\ IsKind(ret.arg, CHANNEL_SILENT)) =>
        /\ Succeeded(ret)
        /\ ret.out.ty = "ChannelSilentData"
        /\ ret.out.silent = (ret.arg[1][2] \notin EmptyPayloads)

C8_Witness ==
    /\ IsReturned(ret)
    /\ ret.arg = <<<<CHANNEL_SILENT, EmptyDict>>>>
    /\ ret.out.ty = "ChannelSilentData"
    /\ ret.out.silent = FALSE

\* the payload of a one-entry call
Payload(c) == c.arg[1][2]

\* segments is present and every segment has tokens_with_probability
WellFormedSegments(payload) ==
    /\ "segments" \in DOMAIN payload.d
    /\ \A i \in DOMAIN payload.d["segments"].items :
          "tokens_with_probability"
              \in DOMAIN payload.d["segments"].items[i].d

TimeKeys == {"processing_time", "start_timestamp", "audio_duration"}

IsTranscription(c) == Succeeded(c) /\ c.out.ty = "UserVoiceMessage"

\* C3: a Transcription payload with segments and without processing_time
\* decodes, with a processing_time of zero; an absent time sub-object
\* (processing_time, audio_duration, start_timestamp) counts as both of its
\* fields being 0 and is no error.
C3_AbsentTimeIsZero ==
    (IsReturned(ret) /\ WellFormedSegments(Payload(ret))) =>
        /\ Succeeded(ret)
        /\ "processing_time" \notin DOMAIN Payload(ret).d
              => processing_time(ret.out) = timedelta(0)
        /\ "audio_duration" \notin DOMAIN Payload(ret).d
              => ret.out._audio_duration = timedelta(0)
        /\ "start_timestamp" \notin DOMAIN Payload(ret).d
              => ret.out._start_time = datetime(0)

\* C4: decoding a Transcription fails, with the error reaching the caller
\* and nothing returned, when segments is absent or a segment lacks
\* tokens_with_probability, and the absence of any other field causes no
\* failure.
C4_OnlyMandatoryFieldsFail ==
    IsReturned(ret) =>
        (IsRaise(ret.out) <=> ~WellFormedSegments(Payload(ret)))

\* the number of tokens in the segments before segment s
RECURSIVE TokensBefore(_, _)
TokensBefore(segments, s) ==
    IF s <= 1 THEN 0
    ELSE TokensBefore(segments, s - 1)
         + Len(segments[s - 1].tokens_with_probability)

\* the texts of the first n (text, probability) pairs, one after the other
RECURSIVE TextOfFirst(_, _)
TextOfFirst(flat, n) ==
    IF n = 0 THEN "" ELSE TextOfFirst(flat, n - 1) \o flat[n][1]

AbCdSegments ==
    PyList(<<PyDict([tokens_with_probability |->
                        PyList(<<PyDict([token_text |-> PyStr("ab")])>>)]),
             PyDict([tokens_with_probability |->
                        PyList(<<PyDict([p |-> PyInt(90),
                                         token_id |-> PyInt(7),
                                         token_text |-> PyStr("cd")])>>)])>>)

\* C7: for a decoded Transcription, tokens_with_confidence lists the
\* (token_text, probability) of every token, segment after segment and token
\* after token, as many as there are tokens; text() is those token texts
\* joined with nothing between them; the segments ["ab"], ["cd"] give "abcd".
C7_TextAndTokensInOrder ==
    IsTranscription(ret) =>
        LET segments == ret.out._segments
            flat == tokens_with_confidence(ret.out)
        IN /\ Len(segments) = Len(Payload(ret).d["segments"].items)
           /\ Len(flat) = TokensBefore(segments, Len(segments) + 1)
           /\ \A s \in DOMAIN segments :
                 \A t \in DOMAIN segments[s].tokens_with_probability :
                    flat[TokensBefore(segments, s) + t]
                        = <<segments[s].tokens_with_probability[t].token_text,
                            segments[s].tokens_with_probability[t].probability>>
           /\ text(ret.out) = TextOfFirst(flat, Len(flat))
           /\ Payload(ret).d["segments"] = AbCdSegments
                 => text(ret.out) = "abcd"

C7_Witness ==
    /\ IsTranscription(ret)
    /\ Payload(ret).d["segments"] = AbCdSegments
    /\ tokens_with_confidence(ret.out)
           = <<<<"ab", PyInt(0)>>, <<"cd", PyInt(90)>>>>
    /\ text(ret.out) = "abcd"

\* the length of the text a token payload stands for
TokenTextLen(data) ==
    IF "token_text" \in DOMAIN data.d THEN Len(str(data.d["token_text"]))
    ELSE 4

RECURSIVE SumOf(_)
SumOf(ns) == IF Len(ns) = 0 THEN 0 ELSE Head(ns) + SumOf(Tail(ns))

\* the length of the text the tokens of a segment payload stand for
SegmentTextLen(seg) ==
    SumOf([t \in DOMAIN seg.d["tokens_with_probability"].items |->
              TokenTextLen(seg.d["tokens_with_probability"].items[t])])

\* C9: no absent token field makes the decode fail: an absent p gives
\* probability 0, an absent token_id gives 0, an absent token_text gives the
\* four characters "None", and that text is part of the segment's rendering
\* and of text().
C9_TokenDefaults ==
    (/\ IsReturned(ret)
     /\ WellFormedSegments(Payload(ret))
     /\ TimeKeys \subseteq DOMAIN Payload(ret).d) =>
        LET segs == Payload(ret).d["segments"].items
        IN /\ IsTranscription(ret)
           /\ \A s \in DOMAIN segs :
                 LET toks == segs[s].d["tokens_with_probability"].items
                     seg == ret.out._segments[s]
                 IN /\ \A t \in DOMAIN toks :
                          LET tok == seg.tokens_with_probability[t]
                              has == DOMAIN toks[t].d
                          IN /\ tok.probability =
                                   IF "p" \in has THEN toks[t].d["p"]
                                   ELSE PyInt(0)
                             /\ tok.token_id =
                                   IF "token_id" \in has
                                   THEN toks[t].d["token_id"]
                                   ELSE PyInt(0)
                             /\ "token_text" \notin has =>
                                   /\ tok.token_text = "None"
                                   /\ Len(tok.token_text) = 4
                    /\ Len(TextSegment__str__(seg)) = SegmentTextLen(segs[s])
           /\ Len(text(ret.out))
                 = SumOf([s \in DOMAIN segs |-> SegmentTextLen(segs[s])])

C9_Witness ==
    /\ IsTranscription(ret)
    /\ Payload(ret).d["segments"]
           = PyList(<<PyDict([tokens_with_probability |->
                                 PyList(<<EmptyDict>>)])>>)
    /\ text(ret.out) = "None"

\* C5: the latency of a decoded Transcription is the clock read by its decode
\* less its start time and its audio duration, and stays that through later
\* advances of the clock and later calls; the same payload decoded at two
\* clock values gives latencies that differ by the difference of the two.
C5_LatencyFixedAtDecode ==
    /\ \A c \in {held, ret} :
          IsTranscription(c) =>
              latency(c.out).us
                  = c.now - c.out._start_time.us - c.out._audio_duration.us
    /\ (IsTranscription(held) /\ IsTranscription(ret) /\ held.arg = ret.arg)
          => latency(ret.out).us - latency(held.out).us = ret.now - held.now

C5_Witness ==
    /\ IsTranscription(held)
    /\ IsTranscription(ret)
    /\ held.arg = ret.arg
    /\ held.now < ret.now
    /\ ret.now < clock
    /\ latency(held.out).us + 1 = latency(ret.out).us

\* a Transcription with its latency left out
WithoutLatency(out) ==
    IF out.ty = "UserVoiceMessage" THEN [out EXCEPT !._latency = None]
    ELSE out

MicrosOfNanos(c) ==
    c.out.us - GetOr(c.arg, "secs", PyInt(0)).i * MicrosPerSecond

\* C6 as claimed: to_duration gives secs seconds and floor(nanos / 1000)
\* microseconds, the nanos truncated, a missing field counting as 0.
C6_NanosTruncated ==
    IsReturned(ret) =>
        /\ Succeeded(ret)
        /\ MicrosOfNanos(ret)
               = GetOr(ret.arg, "nanos", PyInt(0)).i \div NanosPerMicro

\* C6 as amended: to_duration gives secs seconds and the microsecond nearest
\* to nanos / 1000, the even one of the two when nanos lies halfway, a
\* missing field counting as 0: 1 s 500_000_000 ns is 1.5 s, and 1_999 ns is
\* 2 microseconds.
C6_NanosRoundedHalfEven ==
    IsReturned(ret) =>
        LET nanos == GetOr(ret.arg, "nanos", PyInt(0)).i
            off == MicrosOfNanos(ret) * NanosPerMicro - nanos
        IN /\ Succeeded(ret)
           /\ ret.out.ty = "timedelta"
           /\ -500 <= off /\ off <= 500
           /\ off \in {-500, 500} => ret.out.us % 2 = 0
           /\ ret.arg = PyDict([secs |-> PyInt(1), nanos |-> PyInt(500000000)])
                 => ret.out.us = 1500000
           /\ ret.arg = PyDict([nanos |-> PyInt(1999)]) => ret.out.us = 2

C6_Witness ==
    /\ IsReturned(ret)
    /\ ret.arg = PyDict([secs |-> PyInt(1), nanos |-> PyInt(1999)])
    /\ ret.out = timedelta(1000002)

====
